---- MODULE Spec2Model ----
(***************************************************************************)
(* A model of lyse/__init__.py: the Run / Sequence accessors over an HDF5  *)
(* shot file, and the remote dataframe fetch data().                       *)
(*                                                                         *)
(* An HDF5 file is a record                                                *)
(*   groups : the set of group paths ("" is the root, always present)      *)
(*   attrs  : group path -> (attribute name -> value)                      *)
(*   dsets  : group path -> (dataset name -> [data, attrs])                *)
(* Paths are strings, as in the source: 'results/' + self.group is string  *)
(* concatenation and group.startswith('results') a string prefix test.     *)
(* Every handler is one action; the file opens and closes it performs are  *)
(* recorded, in order, in call.log. call is the last call made, pre the    *)
(* state it started in, ens the _create_group_if_not_exists calls it made. *)
(***************************************************************************)
EXTENDS Integers, Sequences, FiniteSets, TLC

VARIABLES file, mfiles, obj, spinning_top, _updated_data, labconfig, call, pre, ens

vars == <<file, mfiles, obj, spinning_top, _updated_data, labconfig, call, pre, ens>>

\* ------------------------------------------------------------------ bounds

\* Attribute values and dataset contents are drawn from 1..MaxValue.
MaxValue == 2
\* The batch writers are called with at most MaxBatch name/value pairs.
MaxBatch == 3

Values == 1..MaxValue

\* The analysed shot file, and the member files of a Sequence.
H5Path == "shot.h5"
MemberPaths == {"m1.h5", "m2.h5"}

\* os.path.basename(__file__).split('.py')[0] of the invoking script.
ScriptGroup == "script"
\* The names handed to set_group.
GroupNames == {"g"}

\* ------------------------------------------------------------ h5py paths

\* h5py resolves a path from the root; a leading "/" is dropped.
Norm(p) == IF Len(p) > 0 /\ SubSeq(p, 1, 1) = "/" THEN SubSeq(p, 2, Len(p)) ELSE p

\* h5_file[location][name]
Join(loc, name) == IF Norm(loc) = "" THEN name ELSE Norm(loc) \o "/" \o name

\* p and every ancestor group of p: create_group makes the missing ones.
Prefixes(p) == {SubSeq(p, 1, i - 1) : i \in {j \in 1..Len(p) : SubSeq(p, j, j) = "/"}} \cup {p}

\* str.startswith
StartsWith(s, prefix) == Len(s) >= Len(prefix) /\ SubSeq(s, 1, Len(prefix)) = prefix

\* str.replace(old, '', 1): the first occurrence of old is removed.
RemoveFirst(s, old) ==
    LET hits == {i \in 1..(Len(s) - Len(old) + 1) : SubSeq(s, i, i + Len(old) - 1) = old}
    IN IF hits = {} THEN s
       ELSE LET i == CHOOSE k \in hits : \A m \in hits : k <= m
            IN SubSeq(s, 1, i - 1) \o SubSeq(s, i + Len(old), Len(s))

\* --------------------------------------------------------- the HDF5 file

NoAttrs == [k \in {} |-> 0]

IsGroup(f, p) == Norm(p) \in f.groups

IsDataset(f, p) == \E g \in f.groups : \E n \in DOMAIN f.dsets[g] : Join(g, n) = Norm(p)

\* `path in h5_file`
Exists(f, p) == IsGroup(f, p) \/ IsDataset(f, p)

\* `name in h5_file[location]`
Contains(f, loc, name) == Exists(f, Join(loc, name))

\* h5_file.create_group(p): p and its missing ancestors appear, empty.
CreateGroup(f, p) ==
    LET all == f.groups \cup Prefixes(Norm(p))
    IN [groups |-> all,
        attrs |-> [g \in all |-> IF g \in f.groups THEN f.attrs[g] ELSE NoAttrs],
        dsets |-> [g \in all |-> IF g \in f.groups THEN f.dsets[g] ELSE NoAttrs]]

\* One attribute (or dataset) entry set in a name -> value mapping.
Put(m, k, v) == [n \in DOMAIN m \cup {k} |-> IF n = k THEN v ELSE m[n]]

\* One entry removed from a name -> value mapping.
Drop(m, k) == [n \in DOMAIN m \ {k} |-> m[n]]

\* h5_file[p].keys(): the names of the groups and datasets directly in p.
Children(f, p) ==
    {SubSeq(g, Len(Norm(p)) + 2, Len(g)) :
        g \in {h \in f.groups : /\ Norm(p) # ""
                                 /\ StartsWith(h, Norm(p) \o "/")
                                 /\ Prefixes(h) \ Prefixes(Norm(p)) = {h}}}
    \cup {g \in f.groups : Norm(p) = "" /\ g # "" /\ Prefixes(g) = {g}}
    \cup (IF IsGroup(f, p) THEN DOMAIN f.dsets[Norm(p)] ELSE {})

\* The <<group, name>> of the dataset stored at path p.
DatasetAt(f, p) ==
    CHOOSE d \in {<<g, n>> : g \in f.groups, n \in UNION {DOMAIN f.dsets[h] : h \in f.groups}} :
        d[2] \in DOMAIN f.dsets[d[1]] /\ Join(d[1], d[2]) = Norm(p)

\* h5_file[p].attrs: groups and datasets both carry attributes.
NodeAttrs(f, p) ==
    IF IsGroup(f, p) THEN f.attrs[Norm(p)]
    ELSE f.dsets[DatasetAt(f, p)[1]][DatasetAt(f, p)[2]].attrs

\* labscript_utils.properties.set_attributes(h5_file[group], {name: value})
SetAttribute(f, group, name, value) ==
    IF IsGroup(f, group)
    THEN [f EXCEPT !.attrs[Norm(group)] = Put(@, name, value)]
    ELSE [f EXCEPT !.dsets[DatasetAt(f, group)[1]][DatasetAt(f, group)[2]].attrs =
                       Put(@, name, value)]

\* del h5_file[group][name]: a dataset is unlinked; a group goes with all
\* that is below it.
DeleteNode(f, group, name) ==
    LET p == Join(group, name)
        gone == {g \in f.groups : g = p \/ StartsWith(g, p \o "/")}
        left == f.groups \ gone
    IN IF p \in f.groups
       THEN [groups |-> left,
             attrs |-> [g \in left |-> f.attrs[g]],
             dsets |-> [g \in left |-> f.dsets[g]]]
       ELSE [f EXCEPT !.dsets[Norm(group)] = Drop(@, name)]

\* h5_file[group].create_dataset(name, data=data), then the attributes.
CreateDataset(f, group, name, data, attrs) ==
    [f EXCEPT !.dsets[Norm(group)] = Put(@, name, [data |-> data, attrs |-> attrs])]

\* The events of call.log.
Open(path, mode) == [ev |-> "open", path |-> path, mode |-> mode]
Close(path) == [ev |-> "close", path |-> path, mode |-> ""]

\* `with h5py.File(path, mode) as h5_file:` around a body that opens nothing.
With(path, mode) == <<Open(path, mode), Close(path)>>

\* ----------------------------------------------------- results of a call

\* What a handler leaves behind: the file, the object, the exception that
\* left the call ("none" when it returned), the opens and
\* closes in order, the returned value, and the _create_group_if_not_exists
\* calls it made.
Outcome(f, o, exc, log, ret, e) ==
    [file |-> f, obj |-> o, exc |-> exc, log |-> log, ret |-> ret, ens |-> e]

\* The same for a handler that also writes the module's _updated_data.
OutcomeU(f, o, upd, exc, log, ret, e) ==
    [file |-> f, obj |-> o, upd |-> upd, exc |-> exc, log |-> log, ret |-> ret, ens |-> e]

\* What is remembered of a _create_group_if_not_exists call.
EnsRec(e) == [loc |-> e.loc, name |-> e.name, exc |-> e.exc, log |-> e.log, absent |-> e.absent]

\* The message-only Exception of a read-only Run (lines 273-277, 303-307).
ReadOnlyError == "Exception"

\* ------------------------------------------------------------------- Run

\* No object has been constructed yet.
NoObject ==
    [kind |-> "none", h5_path |-> H5Path, no_write |-> TRUE,
     has_no_group |-> FALSE, no_group |-> <<>>,
     has_group |-> FALSE, group |-> "", runs |-> <<>>,
     arg_no_write |-> TRUE, script_known |-> FALSE]

\* A variant of _create_group_if_not_exists that holds the read-only handle
\* open while it reopens the file for writing.
CreateGroupNestedOpen(f, h5_path, location, groupname) ==
    IF ~Exists(f, location)
    THEN [file |-> f, exc |-> "KeyError", log |-> With(h5_path, "r"),
          loc |-> Norm(location), name |-> groupname, absent |-> FALSE]
    ELSE IF Contains(f, location, groupname)
    THEN [file |-> f, exc |-> "none", log |-> With(h5_path, "r"),
          loc |-> Norm(location), name |-> groupname, absent |-> FALSE]
    ELSE [file |-> CreateGroup(f, Join(location, groupname)), exc |-> "none",
          log |-> <<Open(h5_path, "r"), Open(h5_path, "r+"), Close(h5_path), Close(h5_path)>>,
          loc |-> Norm(location), name |-> groupname, absent |-> TRUE]

\* A variant of _create_group_if_not_exists that always reopens in write mode
\* (require_group instead of the two-phase check).
CreateGroupAlwaysWrite(f, h5_path, location, groupname) ==
    IF ~Exists(f, location)
    THEN [file |-> f, exc |-> "KeyError", log |-> With(h5_path, "r"),
          loc |-> Norm(location), name |-> groupname, absent |-> FALSE]
    ELSE [file |-> IF Contains(f, location, groupname) THEN f
                   ELSE CreateGroup(f, Join(location, groupname)),
          exc |-> "none",
          log |-> With(h5_path, "r") \o With(h5_path, "r+"),
          loc |-> Norm(location), name |-> groupname,
          absent |-> ~Contains(f, location, groupname)]

\* Run._create_group_if_not_exists: the file is opened read-only to look for
\* groupname in h5_file[location] (a KeyError when location is missing), and
\* reopened 'r+' only when it was not found.
_create_group_if_not_exists(f, h5_path, location, groupname) ==
    IF ~Exists(f, location)
    THEN [file |-> f, exc |-> "KeyError", log |-> With(h5_path, "r"),
          loc |-> Norm(location), name |-> groupname, absent |-> FALSE]
    ELSE IF Contains(f, location, groupname)
    THEN [file |-> f, exc |-> "none", log |-> With(h5_path, "r"),
          loc |-> Norm(location), name |-> groupname, absent |-> FALSE]
    ELSE [file |-> CreateGroup(f, Join(location, groupname)), exc |-> "none",
          log |-> With(h5_path, "r") \o With(h5_path, "r+"),
          loc |-> Norm(location), name |-> groupname, absent |-> TRUE]

\* Run.__init__(h5_path, no_write); script_known says whether the caller's
\* globals hold '__file__'. A KeyError inside the try block, whether from the
\* '__file__' lookup or from _create_group_if_not_exists, makes the Run
\* read-only and backs the flag up in _no_group.
RunInit(f, h5_path, no_write, script_known) ==
    LET o0 == [kind |-> "Run", h5_path |-> h5_path, no_write |-> no_write,
               has_no_group |-> TRUE, no_group |-> <<>>,
               has_group |-> FALSE, group |-> "", runs |-> <<>>,
               arg_no_write |-> no_write, script_known |-> script_known]
        e1 == _create_group_if_not_exists(f, h5_path, "/", "results")
    IN IF no_write THEN Outcome(f, o0, "none", <<>>, "None", <<>>)
       ELSE IF e1.exc # "none"
       THEN Outcome(e1.file, o0, e1.exc, e1.log, "None", <<EnsRec(e1)>>)
       ELSE IF ~script_known
       THEN Outcome(e1.file,
                    [o0 EXCEPT !.no_group = <<TRUE, no_write>>, !.no_write = TRUE],
                    "none", e1.log, "None", <<EnsRec(e1)>>)
       ELSE LET o1 == [o0 EXCEPT !.has_group = TRUE, !.group = ScriptGroup]
                e2 == _create_group_if_not_exists(e1.file, h5_path, "results", o1.group)
            IN IF e2.exc = "KeyError"
               THEN Outcome(e2.file,
                            [o1 EXCEPT !.no_group = <<TRUE, no_write>>, !.no_write = TRUE],
                            "none", e1.log \o e2.log, "None", <<EnsRec(e1), EnsRec(e2)>>)
               ELSE Outcome(e2.file, o1, e2.exc, e1.log \o e2.log, "None", <<EnsRec(e1), EnsRec(e2)>>)

\* A variant of set_group that restores no_write before the group is made
\* and forgets the backed-up value (always writable afterwards).
SetGroupAlwaysWritable(f, o, groupname) ==
    LET o1 == [o EXCEPT !.has_group = TRUE, !.group = groupname]
        e == _create_group_if_not_exists(f, o.h5_path, "/results", groupname)
    IN IF e.exc # "none"
       THEN Outcome(e.file, o1, e.exc, e.log, "None", <<EnsRec(e)>>)
       ELSE Outcome(e.file, [o1 EXCEPT !.no_write = FALSE, !.no_group = <<>>],
                    "none", e.log, "None", <<EnsRec(e)>>)

\* Run.set_group(groupname), inherited by Sequence. self._no_group is read
\* after the group was made: an object that never assigned it (a Sequence)
\* raises AttributeError there.
set_group(f, o, groupname) ==
    LET o1 == [o EXCEPT !.has_group = TRUE, !.group = groupname]
        e == _create_group_if_not_exists(f, o.h5_path, "/results", groupname)
    IN IF e.exc # "none"
       THEN Outcome(e.file, o1, e.exc, e.log, "None", <<EnsRec(e)>>)
       ELSE IF ~o1.has_no_group
       THEN Outcome(e.file, o1, "AttributeError", e.log, "None", <<EnsRec(e)>>)
       ELSE IF o1.no_group # <<>> /\ o1.no_group[1]
       THEN Outcome(e.file, [o1 EXCEPT !.no_write = o1.no_group[2], !.no_group = <<>>],
                    "none", e.log, "None", <<EnsRec(e)>>)
       ELSE Outcome(e.file, o1, "none", e.log, "None", <<EnsRec(e)>>)

\* A variant of save_result that writes before it looks at overwrite.
SaveResultWriteFirst(f, o, u, spin, name, value, group, overwrite) ==
    IF o.no_write
    THEN OutcomeU(f, o, u, ReadOnlyError, <<>>, "None", <<>>)
    ELSE LET g == IF group = "" THEN "results/" \o o.group ELSE group
             f1 == IF group # "" /\ ~Exists(f, group) THEN CreateGroup(f, group) ELSE f
             log == With(o.h5_path, "a")
         IN IF ~Exists(f1, g)
            THEN OutcomeU(f1, o, u, "KeyError", log, "None", <<>>)
            ELSE IF name \in DOMAIN NodeAttrs(f1, g) /\ ~overwrite
            THEN OutcomeU(SetAttribute(f1, g, name, value), o, u, "Exception", log, "None", <<>>)
            ELSE OutcomeU(SetAttribute(f1, g, name, value), o, u, "none", log, "None", <<>>)

\* A variant of save_result that stages every successful write, whatever
\* the group.
SaveResultStageAll(f, o, u, spin, name, value, group, overwrite) ==
    IF o.no_write
    THEN OutcomeU(f, o, u, ReadOnlyError, <<>>, "None", <<>>)
    ELSE LET g == IF group = "" THEN "results/" \o o.group ELSE group
             f1 == IF group # "" /\ ~Exists(f, group) THEN CreateGroup(f, group) ELSE f
             log == With(o.h5_path, "a")
             u1 == IF o.h5_path \in DOMAIN u THEN u ELSE Put(u, o.h5_path, NoAttrs)
             u2 == [u1 EXCEPT ![o.h5_path] = Put(@, <<RemoveFirst(g, "results/"), name>>, value)]
         IN IF ~Exists(f1, g)
            THEN OutcomeU(f1, o, u, "KeyError", log, "None", <<>>)
            ELSE IF name \in DOMAIN NodeAttrs(f1, g) /\ ~overwrite
            THEN OutcomeU(f1, o, u, "Exception", log, "None", <<>>)
            ELSE OutcomeU(SetAttribute(f1, g, name, value), o,
                          IF spin THEN u2 ELSE u, "none", log, "None", <<>>)

\* Run.save_result(name, value, group, overwrite); group = "" is None. u is
\* the module's _updated_data and spin its spinning_top. The read-only test
\* comes before the file is opened; inside the `with` block the group is
\* defaulted or created, an existing attribute without overwrite raises, and
\* the attribute is set; the staging follows once the file is closed.
save_result(f, o, u, spin, name, value, group, overwrite) ==
    IF o.no_write
    THEN OutcomeU(f, o, u, ReadOnlyError, <<>>, "None", <<>>)
    ELSE LET log == With(o.h5_path, "a")
         IN IF group = "" /\ ~o.has_group
            THEN OutcomeU(f, o, u, "AttributeError", log, "None", <<>>)
            ELSE LET g == IF group = "" THEN "results/" \o o.group ELSE group
                     f1 == IF group # "" /\ ~Exists(f, group) THEN CreateGroup(f, group) ELSE f
                     u1 == IF o.h5_path \in DOMAIN u THEN u ELSE Put(u, o.h5_path, NoAttrs)
                     u2 == IF StartsWith(g, "results")
                           THEN [u1 EXCEPT ![o.h5_path] =
                                     Put(@, <<RemoveFirst(g, "results/"), name>>, value)]
                           ELSE u1
                 IN IF ~Exists(f1, g)
                    THEN OutcomeU(f1, o, u, "KeyError", log, "None", <<>>)
                    ELSE IF name \in DOMAIN NodeAttrs(f1, g) /\ ~overwrite
                    THEN OutcomeU(f1, o, u, "Exception", log, "None", <<>>)
                    ELSE OutcomeU(SetAttribute(f1, g, name, value), o,
                                  IF spin THEN u2 ELSE u, "none", log, "None", <<>>)

\* A variant of save_result_array that drops the old attributes even when
\* keep_attrs is set.
SaveResultArrayDropAttrs(f, o, name, data, group, overwrite, keep_attrs, kwargs_ok) ==
    IF o.no_write
    THEN Outcome(f, o, ReadOnlyError, <<>>, "None", <<>>)
    ELSE LET log == With(o.h5_path, "a")
             g == IF group = "" THEN "results/" \o o.group ELSE group
             f1 == IF group # "" /\ ~Exists(f, group) THEN CreateGroup(f, group) ELSE f
         IN IF ~Exists(f1, g)
            THEN Outcome(f1, o, "KeyError", log, "None", <<>>)
            ELSE IF Contains(f1, g, name) /\ ~overwrite
            THEN Outcome(f1, o, "Exception", log, "None", <<>>)
            ELSE LET f2 == IF Contains(f1, g, name) THEN DeleteNode(f1, g, name) ELSE f1
                 IN IF ~kwargs_ok
                    THEN Outcome(f2, o, "TypeError", log, "None", <<>>)
                    ELSE Outcome(CreateDataset(f2, g, name, data, NoAttrs), o,
                                 "none", log, "None", <<>>)

\* Run.save_result_array(name, data, group, overwrite, keep_attrs, **kwargs);
\* kwargs_ok says whether h5py's create_dataset accepts data and kwargs (it
\* raises otherwise, after the old dataset was deleted).
save_result_array(f, o, name, data, group, overwrite, keep_attrs, kwargs_ok) ==
    IF o.no_write
    THEN Outcome(f, o, ReadOnlyError, <<>>, "None", <<>>)
    ELSE LET log == With(o.h5_path, "a")
         IN IF group = "" /\ ~o.has_group
            THEN Outcome(f, o, "AttributeError", log, "None", <<>>)
            ELSE LET g == IF group = "" THEN "results/" \o o.group ELSE group
                     f1 == IF group # "" /\ ~Exists(f, group) THEN CreateGroup(f, group) ELSE f
                 IN IF ~Exists(f1, g)
                    THEN Outcome(f1, o, "KeyError", log, "None", <<>>)
                    ELSE IF ~IsGroup(f1, g)
                    THEN Outcome(f1, o, "TypeError", log, "None", <<>>)
                    ELSE IF Contains(f1, g, name) /\ ~overwrite
                    THEN Outcome(f1, o, "Exception", log, "None", <<>>)
                    ELSE LET old == Contains(f1, g, name)
                             attrs == IF old /\ keep_attrs
                                      THEN NodeAttrs(f1, Join(g, name)) ELSE NoAttrs
                             f2 == IF old THEN DeleteNode(f1, g, name) ELSE f1
                         IN IF ~kwargs_ok
                            THEN Outcome(f2, o, "TypeError", log, "None", <<>>)
                            ELSE Outcome(CreateDataset(f2, g, name, data, attrs), o,
                                         "none", log, "None", <<>>)

\* ------------------------------------------------------- batch writers

\* zip(args[::2], args[1::2]): the name/value pairs of a flat argument list;
\* a trailing name without a value is dropped.
Pairs(args) == [i \in 1..(Len(args) \div 2) |-> <<args[2 * i - 1], args[2 * i]>>]

\* A variant of the loop that swallows a failing pair and goes on to the
\* next.
RECURSIVE SaveEachKeepGoing(_, _, _, _, _, _, _, _, _)
SaveEachKeepGoing(f, o, u, spin, pairs, i, group, overwrite, log) ==
    IF i > Len(pairs)
    THEN OutcomeU(f, o, u, "none", log, "None", <<>>)
    ELSE LET r == save_result(f, o, u, spin, pairs[i][1], pairs[i][2], group, overwrite)
         IN SaveEachKeepGoing(r.file, o, r.upd, spin, pairs, i + 1, group, overwrite,
                              log \o r.log)

\* The loop of save_results over the pairs from the i-th on: each pair goes
\* through save_result, and the first exception ends the loop.
RECURSIVE SaveEach(_, _, _, _, _, _, _, _, _)
SaveEach(f, o, u, spin, pairs, i, group, overwrite, log) ==
    IF i > Len(pairs)
    THEN OutcomeU(f, o, u, "none", log, "None", <<>>)
    ELSE LET r == save_result(f, o, u, spin, pairs[i][1], pairs[i][2], group, overwrite)
         IN IF r.exc # "none"
            THEN OutcomeU(r.file, o, r.upd, r.exc, log \o r.log, "None", <<>>)
            ELSE SaveEach(r.file, o, r.upd, spin, pairs, i + 1, group, overwrite, log \o r.log)

\* A variant of save_results that tests the read-only flag itself, before
\* it looks at its arguments.
SaveResultsGuarded(f, o, u, spin, args, group, overwrite) ==
    IF o.no_write
    THEN OutcomeU(f, o, u, ReadOnlyError, <<>>, "None", <<>>)
    ELSE SaveEach(f, o, u, spin, Pairs(args), 1, group, overwrite, <<>>)

\* Run.save_results(*args, **kwargs)
save_results(f, o, u, spin, args, group, overwrite) ==
    SaveEach(f, o, u, spin, Pairs(args), 1, group, overwrite, <<>>)

\* for name, value in results_dict.items(), with uncertainties: value[0]
\* under name, value[1] under 'u_' + name.
DictPairs(items, uncertainties) ==
    IF ~uncertainties THEN items
    ELSE [k \in 1..(2 * Len(items)) |->
             IF k % 2 = 1
             THEN <<items[(k + 1) \div 2][1], items[(k + 1) \div 2][2][1]>>
             ELSE <<"u_" \o items[k \div 2][1], items[k \div 2][2][2]>>]

\* Run.save_results_dict(results_dict, uncertainties, **kwargs); items is
\* results_dict.items() in the dict's order.
save_results_dict(f, o, u, spin, items, uncertainties, group, overwrite) ==
    SaveEach(f, o, u, spin, DictPairs(items, uncertainties), 1, group, overwrite, <<>>)

\* The loop of save_result_arrays.
RECURSIVE SaveEachArray(_, _, _, _, _, _, _, _, _)
SaveEachArray(f, o, pairs, i, group, overwrite, keep_attrs, kwargs_ok, log) ==
    IF i > Len(pairs)
    THEN Outcome(f, o, "none", log, "None", <<>>)
    ELSE LET r == save_result_array(f, o, pairs[i][1], pairs[i][2], group,
                                    overwrite, keep_attrs, kwargs_ok)
         IN IF r.exc # "none"
            THEN Outcome(r.file, o, r.exc, log \o r.log, "None", <<>>)
            ELSE SaveEachArray(r.file, o, pairs, i + 1, group, overwrite,
                               keep_attrs, kwargs_ok, log \o r.log)

\* Run.save_result_arrays(*args, **kwargs)
save_result_arrays(f, o, args, group, overwrite, keep_attrs, kwargs_ok) ==
    SaveEachArray(f, o, Pairs(args), 1, group, overwrite, keep_attrs, kwargs_ok, <<>>)

\* ------------------------------------------------------- read accessors

\* A read accessor changes neither the file nor the object: what it leaves
\* is an exception or a value, and one read-only open.
Read(exc, ret, log) == [exc |-> exc, ret |-> ret, log |-> log]

\* Run.trace_names: the KeyError of a missing data/traces is caught.
trace_names(f, h5_path) ==
    IF ~Exists(f, "data/traces")
    THEN Read("none", {}, With(h5_path, "r"))
    ELSE Read("none", Children(f, "data/traces"), With(h5_path, "r"))

\* Run.get_attrs(group)
get_attrs(f, h5_path, group) ==
    IF ~Exists(f, group)
    THEN Read("Exception", "None", With(h5_path, "r"))
    ELSE Read("none", NodeAttrs(f, group), With(h5_path, "r"))

\* A variant of get_trace that answers a missing trace with an empty pair,
\* as trace_names answers a missing traces group with an empty list.
GetTraceEmptyWhenMissing(f, h5_path, name) ==
    IF ~Exists(f, "data/traces") \/ ~Contains(f, "data/traces", name)
    THEN Read("none", << <<>>, <<>> >>, With(h5_path, "r"))
    ELSE Read("none", <<f.dsets[Join("data/traces", name)]["t"].data,
                        f.dsets[Join("data/traces", name)]["values"].data>>,
              With(h5_path, "r"))

\* Run.get_trace(name): h5_file['data']['traces'] is a KeyError when either
\* group is missing; a missing name is the explicit Exception; the pair of
\* arrays is returned otherwise.
get_trace(f, h5_path, name) ==
    IF ~Exists(f, "data") \/ ~Exists(f, "data/traces")
    THEN Read("KeyError", "None", With(h5_path, "r"))
    ELSE IF ~Contains(f, "data/traces", name)
    THEN Read("Exception", "None", With(h5_path, "r"))
    ELSE LET tr == f.dsets[Join("data/traces", name)]
         IN IF ~{"t", "values"} \subseteq DOMAIN tr
            THEN Read("KeyError", "None", With(h5_path, "r"))
            ELSE Read("none", <<tr["t"].data, tr["values"].data>>, With(h5_path, "r"))

\* A variant of get_result_array that looks the group up from the root
\* instead of under 'results'.
GetResultArrayFromRoot(f, h5_path, group, name) ==
    IF ~Exists(f, group) \/ ~IsGroup(f, group)
    THEN Read("Exception", "None", With(h5_path, "r"))
    ELSE IF name \notin DOMAIN f.dsets[Norm(group)]
    THEN Read("Exception", "None", With(h5_path, "r"))
    ELSE Read("none", f.dsets[Norm(group)][name].data, With(h5_path, "r"))

\* Run.get_result_array(group, name): both lookups are under 'results'.
get_result_array(f, h5_path, group, name) ==
    IF ~Exists(f, "results")
    THEN Read("KeyError", "None", With(h5_path, "r"))
    ELSE IF ~Contains(f, "results", group)
    THEN Read("Exception", "None", With(h5_path, "r"))
    ELSE IF ~Contains(f, Join("results", group), name)
    THEN Read("Exception", "None", With(h5_path, "r"))
    ELSE Read("none", f.dsets[Join("results", group)][name].data, With(h5_path, "r"))

\* Run.get_result(group, name)
get_result(f, h5_path, group, name) ==
    IF ~Exists(f, "results")
    THEN Read("KeyError", "None", With(h5_path, "r"))
    ELSE IF ~Contains(f, "results", group)
    THEN Read("Exception", "None", With(h5_path, "r"))
    ELSE IF name \notin DOMAIN NodeAttrs(f, Join("results", group))
    THEN Read("Exception", "None", With(h5_path, "r"))
    ELSE Read("none", NodeAttrs(f, Join("results", group))[name], With(h5_path, "r"))

\* The loops of get_results, get_result_arrays and get_traces: one call of
\* the singular accessor per name, the values appended; the first exception
\* ends the loop. which is "result", "array" or "trace".
One(f, h5_path, which, group, name) ==
    IF which = "result" THEN get_result(f, h5_path, group, name)
    ELSE IF which = "array" THEN get_result_array(f, h5_path, group, name)
    ELSE get_trace(f, h5_path, name)

RECURSIVE ReadEach(_, _, _, _, _, _, _, _)
ReadEach(f, h5_path, which, group, names, i, acc, log) ==
    IF i > Len(names) THEN Read("none", acc, log)
    ELSE LET r == One(f, h5_path, which, group, names[i])
         IN IF r.exc # "none" THEN Read(r.exc, "None", log \o r.log)
            ELSE ReadEach(f, h5_path, which, group, names, i + 1,
                          IF which = "trace" THEN acc \o r.ret ELSE Append(acc, r.ret),
                          log \o r.log)

\* Run.get_results(group, *names)
get_results(f, h5_path, group, names) ==
    ReadEach(f, h5_path, "result", group, names, 1, <<>>, <<>>)

\* Run.get_result_arrays(group, *names)
get_result_arrays(f, h5_path, group, names) ==
    ReadEach(f, h5_path, "array", group, names, 1, <<>>, <<>>)

\* Run.get_traces(*names): the (t, values) pairs are spliced into one list.
get_traces(f, h5_path, names) ==
    ReadEach(f, h5_path, "trace", "", names, 1, <<>>, <<>>)

\* Run.get_globals(group): with a group, the KeyError of a missing one is
\* caught and {} returned; without, h5_file['globals'] must exist.
get_globals(f, h5_path, group) ==
    IF group = ""
    THEN IF ~Exists(f, "globals")
         THEN Read("KeyError", "None", With(h5_path, "r"))
         ELSE Read("none", NodeAttrs(f, "globals"), With(h5_path, "r"))
    ELSE IF ~Exists(f, "globals") \/ ~Contains(f, "globals", group)
    THEN Read("none", NoAttrs, With(h5_path, "r"))
    ELSE Read("none", NodeAttrs(f, Join("globals", group)), With(h5_path, "r"))

\* Run.globals_groups: the try is around .keys(), inside the with block.
globals_groups(f, h5_path) ==
    IF ~Exists(f, "globals")
    THEN Read("none", {}, With(h5_path, "r"))
    ELSE Read("none", Children(f, "globals"), With(h5_path, "r"))

\* `sub in s` for strings.
HasSubstring(s, sub) == \E i \in 1..(Len(s) - Len(sub) + 1) : SubSeq(s, i, i + Len(sub) - 1) = sub

\* The groups below p, each with its path relative to p: what visititems
\* hands to its callback (the files hold no datasets under globals).
Below(f, p) == {g \in f.groups : StartsWith(g, Norm(p) \o "/")}

RelativeTo(g, p) == SubSeq(g, Len(Norm(p)) + 2, Len(g))

\* dict.update over the attributes of the groups gs: a key held by several
\* groups keeps the value of one of them (the last visited).
MergedAttrs(f, gs) ==
    [k \in UNION {DOMAIN f.attrs[g] : g \in gs} |->
        f.attrs[CHOOSE g \in gs : k \in DOMAIN f.attrs[g]][k]]

\* Run.get_globals_raw(group)
get_globals_raw(f, h5_path, group) ==
    IF ~Exists(f, "globals")
    THEN Read("KeyError", "None", With(h5_path, "r"))
    ELSE IF group = ""
    THEN Read("none",
              MergedAttrs(f, {g \in f.groups : \E n \in Children(f, "globals") :
                                                   g = Join("globals", n)}),
              With(h5_path, "r"))
    ELSE IF ~Contains(f, "globals", group)
    THEN Read("KeyError", "None", With(h5_path, "r"))
    ELSE Read("none", NodeAttrs(f, Join("globals", group)), With(h5_path, "r"))

\* Run.get_globals_expansion: the attributes of everything under globals
\* whose path holds 'expansion', the falsy values (0 here) left out.
get_globals_expansion(f, h5_path) ==
    IF ~Exists(f, "globals")
    THEN Read("KeyError", "None", With(h5_path, "r"))
    ELSE LET gs == {g \in Below(f, "globals") : HasSubstring(RelativeTo(g, "globals"), "expansion")}
             all == MergedAttrs(f, gs)
         IN Read("none", [k \in {n \in DOMAIN all : all[n] # 0} |-> all[k]], With(h5_path, "r"))

\* Run.get_units
get_units(f, h5_path) ==
    IF ~Exists(f, "globals")
    THEN Read("KeyError", "None", With(h5_path, "r"))
    ELSE Read("none",
              MergedAttrs(f, {g \in Below(f, "globals") :
                                 HasSubstring(RelativeTo(g, "globals"), "units")}),
              With(h5_path, "r"))

\* Run.get_image(orientation, label, image)
get_image(f, h5_path, orientation, label, image) ==
    IF ~Exists(f, "images") \/ ~Contains(f, "images", orientation)
       \/ ~Contains(f, Join("images", orientation), label)
       \/ ~Contains(f, Join(Join("images", orientation), label), image)
    THEN Read("Exception", "None", With(h5_path, "r"))
    ELSE Read("none", f.dsets[Join(Join("images", orientation), label)][image].data,
              With(h5_path, "r"))

\* Run.get_images(orientation, label, *images)
RECURSIVE get_images_from(_, _, _, _, _, _, _, _)
get_images_from(f, h5_path, orientation, label, images, i, acc, log) ==
    IF i > Len(images) THEN Read("none", acc, log)
    ELSE LET r == get_image(f, h5_path, orientation, label, images[i])
         IN IF r.exc # "none" THEN Read(r.exc, "None", log \o r.log)
            ELSE get_images_from(f, h5_path, orientation, label, images, i + 1,
                                 Append(acc, r.ret), log \o r.log)

get_images(f, h5_path, orientation, label, images) ==
    get_images_from(f, h5_path, orientation, label, images, 1, <<>>, <<>>)

\* Run.get_all_image_labels: h5_file['/images'] must exist.
get_all_image_labels(f, h5_path) ==
    IF ~Exists(f, "images")
    THEN Read("KeyError", "None", With(h5_path, "r"))
    ELSE Read("none",
              [o \in Children(f, "images") |-> Children(f, Join("images", o))],
              With(h5_path, "r"))

\* Run.get_image_attributes(orientation)
get_image_attributes(f, h5_path, orientation) ==
    IF ~Exists(f, "images") \/ ~Contains(f, "images", orientation)
    THEN Read("Exception", "None", With(h5_path, "r"))
    ELSE Read("none", NodeAttrs(f, Join("images", orientation)), With(h5_path, "r"))

\* labscript_utils.dict_diff: the keys whose values differ, with both values
\* (0 where a dict lacks the key).
dict_diff(d1, d2) ==
    [k \in {n \in DOMAIN d1 \cup DOMAIN d2 :
              n \notin DOMAIN d1 \/ n \notin DOMAIN d2 \/ d1[n] # d2[n]} |->
        <<IF k \in DOMAIN d1 THEN d1[k] ELSE 0, IF k \in DOMAIN d2 THEN d2[k] ELSE 0>>]

\* Run.globals_diff(other_run, group) and the module's globals_diff: the
\* globals of this run's file are read, then those of the other run's.
globals_diff(f, h5_path, f2, h5_path2, group) ==
    LET r1 == get_globals(f, h5_path, group)
        r2 == get_globals(f2, h5_path2, group)
    IN IF r1.exc # "none" THEN Read(r1.exc, "None", r1.log)
       ELSE IF r2.exc # "none" THEN Read(r2.exc, "None", r1.log \o r2.log)
       ELSE Read("none", dict_diff(r1.ret, r2.ret), r1.log \o r2.log)

\* -------------------------------------------------------------- Sequence

\* Sequence.__init__(h5_path, run_paths, no_write); script_known says whether
\* the caller's locals hold '__file__'. Run.__init__ is not called: _no_group
\* is never assigned. The member Runs are built with no_write=True, which
\* opens nothing.
SequenceInit(f, h5_path, run_paths, no_write, script_known) ==
    LET o0 == [kind |-> "Sequence", h5_path |-> h5_path, no_write |-> no_write,
               has_no_group |-> FALSE, no_group |-> <<>>,
               has_group |-> FALSE, group |-> "", runs |-> run_paths,
               arg_no_write |-> no_write, script_known |-> script_known]
        e1 == _create_group_if_not_exists(f, h5_path, "/", "results")
        f1 == IF no_write THEN f ELSE e1.file
        log1 == IF no_write THEN <<>> ELSE e1.log
        ens1 == IF no_write THEN <<>> ELSE <<EnsRec(e1)>>
    IN IF ~no_write /\ e1.exc # "none"
       THEN Outcome(f1, o0, e1.exc, log1, "None", ens1)
       ELSE IF ~script_known
       THEN Outcome(f1, [o0 EXCEPT !.no_write = TRUE], "none", log1, "None", ens1)
       ELSE LET o1 == [o0 EXCEPT !.has_group = TRUE, !.group = ScriptGroup]
                e2 == _create_group_if_not_exists(f1, h5_path, "results", o1.group)
            IN IF no_write
               THEN Outcome(f1, o1, "none", log1, "None", ens1)
               ELSE IF e2.exc = "KeyError"
               THEN Outcome(e2.file, [o1 EXCEPT !.no_write = TRUE], "none",
                            log1 \o e2.log, "None", ens1 \o <<EnsRec(e2)>>)
               ELSE Outcome(e2.file, o1, e2.exc, log1 \o e2.log, "None",
                            ens1 \o <<EnsRec(e2)>>)

\* The dict comprehensions of Sequence.get_trace and Sequence.get_result_array:
\* the member Runs are visited in the order of self.runs, each call opening its
\* own file; the first exception ends the comprehension.
RECURSIVE FanOut(_, _, _, _, _, _, _, _)
FanOut(mf, runs, which, group, name, i, acc, log) ==
    IF i > Len(runs) THEN Read("none", acc, log)
    ELSE LET r == One(mf[runs[i]], runs[i], which, group, name)
         IN IF r.exc # "none" THEN Read(r.exc, "None", log \o r.log)
            ELSE FanOut(mf, runs, which, group, name, i + 1,
                        Put(acc, runs[i], r.ret), log \o r.log)

\* Sequence.get_trace(name)
Sequence_get_trace(mf, o, name) == FanOut(mf, o.runs, "trace", "", name, 1, NoAttrs, <<>>)

\* Sequence.get_result_array(group, name)
Sequence_get_result_array(mf, o, group, name) ==
    FanOut(mf, o.runs, "array", group, name, 1, NoAttrs, <<>>)

\* Sequence.get_traces, get_result_arrays, get_image
NotImplemented == Read("NotImplementedError", "None", <<>>)

\* ------------------------------------------------------------------ data

\* The n_sequences and filter_kwargs a caller may pass, by Python type.
PyNone == [type |-> "NoneType", val |-> 0]
PyInt(n) == [type |-> "int", val |-> n]
PyStr == [type |-> "str", val |-> 0]
PyBool == [type |-> "bool", val |-> 1]
PyDict == [type |-> "dict", val |-> 0]
PyList == [type |-> "list", val |-> 0]

\* A variant of data that sends first and validates n_sequences afterwards.
DataSendFirst(filepath, n_sequences, filter_kwargs, transport, cfg) ==
    IF filepath # ""
    THEN [exc |-> "none", ret |-> "series", sent |-> <<>>]
    ELSE IF n_sequences.type # "NoneType" /\ ~(n_sequences.type = "int" /\ n_sequences.val >= 0)
    THEN [exc |-> "ValueError", ret |-> "None", sent |-> << <<"get_dataframe">> >>]
    ELSE IF filter_kwargs.type \notin {"NoneType", "dict"}
    THEN [exc |-> "ValueError", ret |-> "None", sent |-> <<>>]
    ELSE [exc |-> "none", ret |-> "range", sent |-> << <<"get_dataframe">> >>]

\* data(filepath, host, port, timeout, n_sequences, filter_kwargs). filepath
\* "" is None. transport is what zmq_get does with the command: "timeout"
\* (it raises), "empty" (a table without the index columns) or "table". cfg
\* is the module's _labconfig: "unbound" when LabConfig(...) raised at import
\* (lines 56-60 then set only _lyse_port), else the integer_indexing option:
\* "true", "false" or "no_option".
data(filepath, n_sequences, filter_kwargs, transport, cfg) ==
    IF filepath # ""
    THEN [exc |-> "none", ret |-> "series", sent |-> <<>>]
    ELSE IF n_sequences.type # "NoneType" /\ ~(n_sequences.type = "int" /\ n_sequences.val >= 0)
    THEN [exc |-> "ValueError", ret |-> "None", sent |-> <<>>]
    ELSE IF filter_kwargs.type \notin {"NoneType", "dict"}
    THEN [exc |-> "ValueError", ret |-> "None", sent |-> <<>>]
    ELSE LET command == <<"get_dataframe">>
                        \o (IF n_sequences.type = "int"
                            THEN <<"--n_sequences", n_sequences.val>> ELSE <<>>)
                        \o (IF filter_kwargs.type = "dict"
                            THEN <<"--filter_kwargs", "repr">> ELSE <<>>)
         IN IF transport = "timeout"
            THEN [exc |-> "TimeoutError", ret |-> "None", sent |-> <<command>>]
            ELSE IF cfg = "unbound"
            THEN [exc |-> "NameError", ret |-> "None", sent |-> <<command>>]
            ELSE IF transport = "empty"
            THEN [exc |-> "none", ret |-> "range", sent |-> <<command>>]
            ELSE [exc |-> "none",
                  ret |-> IF cfg = "true" THEN "integer" ELSE "sequence",
                  sent |-> <<command>>]

\* ------------------------------------------------------------ the files

\* A shot file as the experiment leaves it: globals, no results, no traces.
FreshFile ==
    [groups |-> {"", "globals"},
     attrs |-> [g \in {"", "globals"} |-> NoAttrs],
     dsets |-> [g \in {"", "globals"} |-> NoAttrs]]

\* A shot file with globals, a trace foo, an image and the results of an
\* earlier analysis under results/g: the attributes x and other, and the
\* dataset x, which carries an attribute.
AnalysedGroups ==
    {"", "globals", "globals/g1", "globals/g1/expansion", "globals/g1/units",
     "data", "data/traces", "data/traces/foo",
     "images", "images/side", "images/side/absorption",
     "results", "results/g"}

AnalysedFile ==
    [groups |-> AnalysedGroups,
     attrs |-> [g \in AnalysedGroups |->
                   IF g = "results/g" THEN [x |-> 1, other |-> 1]
                   ELSE IF g = "globals/g1" THEN [p |-> 1, q |-> 1]
                   ELSE IF g = "globals/g1/expansion" THEN [p |-> 1, q |-> 0]
                   ELSE IF g = "globals/g1/units" THEN [p |-> 1, q |-> 1]
                   ELSE IF g = "images/side" THEN [exposure |-> 1]
                   ELSE NoAttrs],
     dsets |-> [g \in AnalysedGroups |->
                   IF g = "results/g"
                   THEN [x |-> [data |-> 1, attrs |-> [unit |-> 1]]]
                   ELSE IF g = "data/traces/foo"
                   THEN [t |-> [data |-> 1, attrs |-> NoAttrs],
                         values |-> [data |-> 1, attrs |-> NoAttrs]]
                   ELSE IF g = "images/side/absorption"
                   THEN [atoms |-> [data |-> 1, attrs |-> NoAttrs]]
                   ELSE NoAttrs]]

\* A shot file with a data group but no traces in it.
NoTracesFile ==
    [groups |-> {"", "globals", "data"},
     attrs |-> [g \in {"", "globals", "data"} |-> NoAttrs],
     dsets |-> [g \in {"", "globals", "data"} |-> NoAttrs]]

\* A shot file with an empty traces group.
EmptyTracesFile ==
    [groups |-> {"", "globals", "data", "data/traces"},
     attrs |-> [g \in {"", "globals", "data", "data/traces"} |-> NoAttrs],
     dsets |-> [g \in {"", "globals", "data", "data/traces"} |-> NoAttrs]]

\* --------------------------------------------------------------- actions

\* No call has been made yet.
NoCall == [op |-> "none", args |-> <<>>, exc |-> "none", log |-> <<>>, ret |-> "None", sent |-> <<>>]

\* A call that may write: r is what the handler leaves, u the new
\* _updated_data. call and pre record the call and the state it started in,
\* ens the _create_group_if_not_exists calls made during it, in order.
Do(op, args, r, u) ==
    /\ pre' = [file |-> file, upd |-> _updated_data, obj |-> obj]
    /\ file' = r.file
    /\ obj' = r.obj
    /\ _updated_data' = u
    /\ call' = [op |-> op, args |-> args, exc |-> r.exc, log |-> r.log, ret |-> r.ret, sent |-> <<>>]
    /\ ens' = r.ens
    /\ UNCHANGED <<mfiles, spinning_top, labconfig>>

\* A read accessor's call.
DoRead(op, args, r) ==
    /\ pre' = [file |-> file, upd |-> _updated_data, obj |-> obj]
    /\ call' = [op |-> op, args |-> args, exc |-> r.exc, log |-> r.log, ret |-> r.ret, sent |-> <<>>]
    /\ ens' = <<>>
    /\ UNCHANGED <<file, mfiles, obj, spinning_top, _updated_data, labconfig>>

\* run = Run(h5_path, no_write): the name is bound only when __init__ returns.
NewRun(no_write, script_known) ==
    LET r == RunInit(file, H5Path, no_write, script_known)
    IN Do("Run", [no_write |-> no_write, script_known |-> script_known],
          IF r.exc = "none" THEN r ELSE [r EXCEPT !.obj = obj], _updated_data)

\* seq = Sequence(h5_path, run_paths, no_write)
NewSequence(run_paths, no_write, script_known) ==
    LET r == SequenceInit(file, H5Path, run_paths, no_write, script_known)
    IN Do("Sequence",
          [run_paths |-> run_paths, no_write |-> no_write, script_known |-> script_known],
          IF r.exc = "none" THEN r ELSE [r EXCEPT !.obj = obj], _updated_data)

SetGroup(groupname) ==
    /\ obj.kind # "none"
    /\ Do("set_group", [groupname |-> groupname], set_group(file, obj, groupname), _updated_data)

SaveResult(name, value, group, overwrite) ==
    /\ obj.kind # "none"
    /\ LET r == save_result(file, obj, _updated_data, spinning_top, name, value, group, overwrite)
       IN Do("save_result",
             [name |-> name, value |-> value, group |-> group, overwrite |-> overwrite],
             r, r.upd)

SaveResultArray(name, d, group, overwrite, keep_attrs, kwargs_ok) ==
    /\ obj.kind # "none"
    /\ Do("save_result_array",
          [name |-> name, data |-> d, group |-> group, overwrite |-> overwrite,
           keep_attrs |-> keep_attrs, kwargs_ok |-> kwargs_ok],
          save_result_array(file, obj, name, d, group, overwrite, keep_attrs, kwargs_ok),
          _updated_data)

SaveResults(args, group, overwrite) ==
    /\ obj.kind # "none"
    /\ LET r == save_results(file, obj, _updated_data, spinning_top, args, group, overwrite)
       IN Do("save_results", [args |-> args, group |-> group, overwrite |-> overwrite], r, r.upd)

SaveResultsDict(items, uncertainties, group, overwrite) ==
    /\ obj.kind # "none"
    /\ LET r == save_results_dict(file, obj, _updated_data, spinning_top, items,
                                  uncertainties, group, overwrite)
       IN Do("save_results_dict",
             [items |-> items, uncertainties |-> uncertainties, group |-> group,
              overwrite |-> overwrite],
             r, r.upd)

SaveResultArrays(args, group, overwrite, keep_attrs, kwargs_ok) ==
    /\ obj.kind # "none"
    /\ Do("save_result_arrays",
          [args |-> args, group |-> group, overwrite |-> overwrite,
           keep_attrs |-> keep_attrs, kwargs_ok |-> kwargs_ok],
          save_result_arrays(file, obj, args, group, overwrite, keep_attrs, kwargs_ok),
          _updated_data)

GetResult(group, name) ==
    /\ obj.kind # "none"
    /\ DoRead("get_result", [group |-> group, name |-> name],
              get_result(file, obj.h5_path, group, name))

GetResults(group, names) ==
    /\ obj.kind # "none"
    /\ DoRead("get_results", [group |-> group, names |-> names],
              get_results(file, obj.h5_path, group, names))

\* Sequence overrides get_result_array, get_trace, get_traces and
\* get_result_arrays.
GetResultArray(group, name) ==
    /\ obj.kind # "none"
    /\ DoRead("get_result_array", [group |-> group, name |-> name],
              IF obj.kind = "Sequence"
              THEN Sequence_get_result_array(mfiles, obj, group, name)
              ELSE get_result_array(file, obj.h5_path, group, name))

GetResultArrays(group, names) ==
    /\ obj.kind # "none"
    /\ DoRead("get_result_arrays", [group |-> group, names |-> names],
              IF obj.kind = "Sequence" THEN NotImplemented
              ELSE get_result_arrays(file, obj.h5_path, group, names))

GetTrace(name) ==
    /\ obj.kind # "none"
    /\ DoRead("get_trace", [name |-> name],
              IF obj.kind = "Sequence" THEN Sequence_get_trace(mfiles, obj, name)
              ELSE get_trace(file, obj.h5_path, name))

GetTraces(names) ==
    /\ obj.kind # "none"
    /\ DoRead("get_traces", [names |-> names],
              IF obj.kind = "Sequence" THEN NotImplemented
              ELSE get_traces(file, obj.h5_path, names))

TraceNames ==
    /\ obj.kind # "none"
    /\ DoRead("trace_names", <<>>, trace_names(file, obj.h5_path))

GetAttrs(group) ==
    /\ obj.kind # "none"
    /\ DoRead("get_attrs", [group |-> group], get_attrs(file, obj.h5_path, group))

GetGlobals(group) ==
    /\ obj.kind # "none"
    /\ DoRead("get_globals", [group |-> group], get_globals(file, obj.h5_path, group))

GlobalsGroups ==
    /\ obj.kind # "none"
    /\ DoRead("globals_groups", <<>>, globals_groups(file, obj.h5_path))

GetGlobalsRaw(group) ==
    /\ obj.kind # "none"
    /\ DoRead("get_globals_raw", [group |-> group], get_globals_raw(file, obj.h5_path, group))

GetGlobalsExpansion ==
    /\ obj.kind # "none"
    /\ DoRead("get_globals_expansion", <<>>, get_globals_expansion(file, obj.h5_path))

GetUnits ==
    /\ obj.kind # "none"
    /\ DoRead("get_units", <<>>, get_units(file, obj.h5_path))

\* Sequence overrides get_image; get_images calls self.get_image.
GetImage(orientation, label, image) ==
    /\ obj.kind # "none"
    /\ DoRead("get_image", [orientation |-> orientation, label |-> label, image |-> image],
              IF obj.kind = "Sequence" THEN NotImplemented
              ELSE get_image(file, obj.h5_path, orientation, label, image))

GetImages(orientation, label, images) ==
    /\ obj.kind # "none"
    /\ DoRead("get_images", [orientation |-> orientation, label |-> label, images |-> images],
              IF obj.kind = "Sequence"
              THEN (IF images = <<>> THEN Read("none", <<>>, <<>>) ELSE NotImplemented)
              ELSE get_images(file, obj.h5_path, orientation, label, images))

GetAllImageLabels ==
    /\ obj.kind # "none"
    /\ DoRead("get_all_image_labels", <<>>, get_all_image_labels(file, obj.h5_path))

GetImageAttributes(orientation) ==
    /\ obj.kind # "none"
    /\ DoRead("get_image_attributes", [orientation |-> orientation],
              get_image_attributes(file, obj.h5_path, orientation))

\* run.globals_diff(other_run, group), other_run a Run over a member file.
GlobalsDiff(other, group) ==
    /\ obj.kind # "none"
    /\ DoRead("globals_diff", [other |-> other, group |-> group],
              globals_diff(file, obj.h5_path, mfiles[other], other, group))

\* lyse.data(...): a module function; no Run is involved.
Data(filepath, n_sequences, filter_kwargs, transport) ==
    LET r == data(filepath, n_sequences, filter_kwargs, transport, labconfig)
    IN /\ pre' = [file |-> file, upd |-> _updated_data, obj |-> obj]
       /\ call' = [op |-> "data",
                   args |-> [filepath |-> filepath, n_sequences |-> n_sequences,
                             filter_kwargs |-> filter_kwargs, transport |-> transport],
                   exc |-> r.exc, log |-> <<>>, ret |-> r.ret, sent |-> r.sent]
       /\ ens' = <<>>
       /\ UNCHANGED <<file, mfiles, obj, spinning_top, _updated_data, labconfig>>

\* ----------------------------------------------------- the specifications

\* The argument lists of the batch writers: up to MaxBatch name/value pairs
\* flattened, and the same with a trailing name that has no value.
RECURSIVE PairLists(_, _, _)
PairLists(names, values, n) ==
    IF n = 0 THEN {<<>>}
    ELSE PairLists(names, values, n - 1)
         \cup {l \o <<nm, v>> : l \in {k \in PairLists(names, values, n - 1) : Len(k) = 2 * (n - 1)},
                               nm \in names, v \in values}

TypeOK ==
    /\ obj.kind \in {"none", "Run", "Sequence"}
    /\ spinning_top \in BOOLEAN
    /\ "" \in file.groups

\* Every method of Run and Sequence on one shot file, over the smallest data:
\* one name, one value, the default group or the top-level group misc.
Init ==
    /\ file \in {FreshFile, AnalysedFile}
    /\ mfiles = [m \in MemberPaths |-> IF m = "m1.h5" THEN AnalysedFile ELSE FreshFile]
    /\ obj = NoObject
    /\ spinning_top = FALSE
    /\ _updated_data = NoAttrs
    /\ labconfig = "false"
    /\ call = NoCall
    /\ pre = [file |-> file, upd |-> _updated_data, obj |-> obj]
    /\ ens = <<>>

Next ==
    \/ \E nw \in BOOLEAN, sk \in BOOLEAN : NewRun(nw, sk)
    \/ \E nw \in BOOLEAN, sk \in BOOLEAN : NewSequence(<<"m1.h5", "m2.h5">>, nw, sk)
    \/ \E g \in GroupNames : SetGroup(g)
    \/ \E ow \in BOOLEAN : SaveResult("x", 1, "", ow)
    \/ \E ow \in BOOLEAN, ok \in BOOLEAN : SaveResultArray("x", 1, "", ow, FALSE, ok)
    \/ \E a \in PairLists({"x"}, {1}, MaxBatch) \cup {<<"x">>} : SaveResults(a, "", TRUE)
    \/ \E it \in {<<>>, << <<"x", 1>> >>} : SaveResultsDict(it, FALSE, "", TRUE)
    \/ \E a \in PairLists({"x"}, {1}, MaxBatch) : SaveResultArrays(a, "", TRUE, FALSE, TRUE)
    \/ \E n \in {"x", "missing"} : GetResult("g", n)
    \/ GetResults("g", <<"x", "missing">>)
    \/ \E n \in {"x", "missing"} : GetResultArray("g", n)
    \/ GetResultArrays("g", <<"x", "x">>)
    \/ \E n \in {"foo", "bar"} : GetTrace(n)
    \/ GetTraces(<<"foo", "foo">>)
    \/ TraceNames
    \/ \E grp \in {"results/g", "nogroup"} : GetAttrs(grp)
    \/ \E grp \in {"", "g1", "nogroup"} : GetGlobals(grp)
    \/ GlobalsGroups
    \/ \E grp \in {"", "g1", "nogroup"} : GetGlobalsRaw(grp)
    \/ GetGlobalsExpansion
    \/ GetUnits
    \/ \E im \in {"atoms", "missing"} : GetImage("side", "absorption", im)
    \/ \E ims \in {<<>>, <<"atoms", "missing">>} : GetImages("side", "absorption", ims)
    \/ GetAllImageLabels
    \/ \E o \in {"side", "top"} : GetImageAttributes(o)
    \/ \E m \in MemberPaths : GlobalsDiff(m, "g1")

Spec == Init /\ [][Next]_vars

\* save_result on a Run built by a script, with and without the GUI's
\* spinning_top: two names and all the values into the default group, one
\* name into the top-level group misc and into another analysis' group
\* results/g.
InitAttr ==
    /\ file \in {FreshFile, AnalysedFile}
    /\ mfiles = [m \in MemberPaths |-> FreshFile]
    /\ obj = NoObject
    /\ spinning_top \in BOOLEAN
    /\ _updated_data = NoAttrs
    /\ labconfig = "false"
    /\ call = NoCall
    /\ pre = [file |-> file, upd |-> _updated_data, obj |-> obj]
    /\ ens = <<>>

NextAttr ==
    \/ \E nw \in BOOLEAN : NewRun(nw, TRUE)
    \/ \E n \in {"x", "y"}, v \in Values, ow \in BOOLEAN : SaveResult(n, v, "", ow)
    \/ \E v \in Values, grp \in {"misc", "results/g"}, ow \in BOOLEAN :
           SaveResult("x", v, grp, ow)
    \/ \E grp \in {ScriptGroup, "g"}, n \in {"x", "y"} : GetResult(grp, n)

SpecAttr == InitAttr /\ [][NextAttr]_vars

\* save_result_array and get_result_array on a Run built by a script, its
\* group the script's or set to the earlier analysis' group g, whose
\* dataset x carries an attribute.
InitArr ==
    /\ file \in {FreshFile, AnalysedFile}
    /\ mfiles = [m \in MemberPaths |-> FreshFile]
    /\ obj = NoObject
    /\ spinning_top = FALSE
    /\ _updated_data = NoAttrs
    /\ labconfig = "false"
    /\ call = NoCall
    /\ pre = [file |-> file, upd |-> _updated_data, obj |-> obj]
    /\ ens = <<>>

NextArr ==
    \/ \E nw \in BOOLEAN : NewRun(nw, TRUE)
    \/ SetGroup("g")
    \/ \E d \in Values, ow \in BOOLEAN, ka \in BOOLEAN, ok \in BOOLEAN :
           SaveResultArray("x", d, "", ow, ka, ok)
    \/ \E d \in Values, ow \in BOOLEAN, ka \in BOOLEAN :
           SaveResultArray("x", d, "results/g", ow, ka, TRUE)
    \/ \E grp \in {ScriptGroup, "g"}, n \in {"x", "y"} : GetResultArray(grp, n)

SpecArr == InitArr /\ [][NextArr]_vars

\* The shot files a Sequence may be given as members.
MemberFiles == {FreshFile, NoTracesFile, EmptyTracesFile, AnalysedFile}

\* The member lists a Sequence may be given.
RunPathLists == {<<>>, <<"m1.h5">>, <<"m2.h5">>, <<"m1.h5", "m2.h5">>, <<"m2.h5", "m1.h5">>}

\* The trace accessors on a Run and on a Sequence over none, one or two
\* members, each member with or without the traces structure.
InitTrace ==
    /\ file \in {FreshFile, AnalysedFile}
    /\ mfiles \in [MemberPaths -> MemberFiles]
    /\ obj = NoObject
    /\ spinning_top = FALSE
    /\ _updated_data = NoAttrs
    /\ labconfig = "false"
    /\ call = NoCall
    /\ pre = [file |-> file, upd |-> _updated_data, obj |-> obj]
    /\ ens = <<>>

NextTrace ==
    \/ NewRun(TRUE, TRUE)
    \/ \E rp \in RunPathLists : NewSequence(rp, TRUE, TRUE)
    \/ \E n \in {"foo", "bar"} : GetTrace(n)
    \/ TraceNames

SpecTrace == InitTrace /\ [][NextTrace]_vars

\* The n_sequences a caller of data may pass.
NSequences == {PyNone, PyStr, PyBool} \cup {PyInt(n) : n \in -1..MaxValue}

\* The filter_kwargs a caller of data may pass.
FilterKwargs == {PyNone, PyDict, PyStr, PyList}

\* data() in a process whose lab configuration loaded, with either value
\* of the integer_indexing option or without it, or failed to load.
InitData ==
    /\ file = AnalysedFile
    /\ mfiles = [m \in MemberPaths |-> FreshFile]
    /\ obj = NoObject
    /\ spinning_top = FALSE
    /\ _updated_data = NoAttrs
    /\ labconfig \in {"unbound", "no_option", "true", "false"}
    /\ call = NoCall
    /\ pre = [file |-> file, upd |-> _updated_data, obj |-> obj]
    /\ ens = <<>>

NextData ==
    \E fp \in {"", H5Path}, n \in NSequences, fk \in FilterKwargs,
       tr \in {"timeout", "empty", "table"} : Data(fp, n, fk, tr)

SpecData == InitData /\ [][NextData]_vars

\* The writers on a Run or Sequence whose group is the script's or set by
\* set_group, save_result_array also into the group results itself, under a
\* name that may be a result group's.
InitGroup ==
    /\ file \in {FreshFile, AnalysedFile}
    /\ mfiles = [m \in MemberPaths |-> FreshFile]
    /\ obj = NoObject
    /\ spinning_top = FALSE
    /\ _updated_data = NoAttrs
    /\ labconfig = "false"
    /\ call = NoCall
    /\ pre = [file |-> file, upd |-> _updated_data, obj |-> obj]
    /\ ens = <<>>

NextGroup ==
    \/ \E nw \in BOOLEAN, sk \in BOOLEAN : NewRun(nw, sk)
    \/ \E nw \in BOOLEAN, sk \in BOOLEAN : NewSequence(<<"m1.h5">>, nw, sk)
    \/ \E g \in GroupNames : SetGroup(g)
    \/ SaveResult("x", 1, "", TRUE)
    \/ \E n \in {"x", ScriptGroup}, grp \in {"", "results"} :
           SaveResultArray(n, 1, grp, TRUE, FALSE, TRUE)
    \/ GetResult("g", "x")

SpecGroup == InitGroup /\ [][NextGroup]_vars

\* A shot file the same script has analysed before: results/script holds
\* the attribute x and the dataset x, which carries an attribute.
ReanalysedFile ==
    CreateDataset(SetAttribute(CreateGroup(FreshFile, "results/" \o ScriptGroup),
                               "results/" \o ScriptGroup, "x", 1),
                  "results/" \o ScriptGroup, "x", 1, [unit |-> 1])

\* results_dict.items() for save_results_dict: no name or the one name x;
\* with uncertainties the value is a (value, uncertainty) pair.
DictItems(uncertainties) ==
    {<<>>} \cup {IF uncertainties THEN << <<"x", <<v, 1>> >> >> ELSE << <<"x", v>> >> : v \in {1, 2}}

\* The argument lists of save_results: up to MaxBatch pairs, x with either
\* value and u_x with one, in every order and with repeats.
BatchLists ==
    {l \in PairLists({"x", "u_x"}, {1, 2}, MaxBatch) :
        \A i \in 1..(Len(l) \div 2) : l[2 * i - 1] = "u_x" => l[2 * i] = 1}

\* The batch writers on a writable Run built by a script, over a file that is
\* new to the script or was analysed by it before.
InitBatch ==
    /\ file \in {FreshFile, ReanalysedFile}
    /\ mfiles = [m \in MemberPaths |-> FreshFile]
    /\ obj = NoObject
    /\ spinning_top = FALSE
    /\ _updated_data = NoAttrs
    /\ labconfig = "false"
    /\ call = NoCall
    /\ pre = [file |-> file, upd |-> _updated_data, obj |-> obj]
    /\ ens = <<>>

NextBatch ==
    \/ NewRun(FALSE, TRUE)
    \/ \E a \in BatchLists, ow \in BOOLEAN : SaveResults(a, "", ow)
    \/ \E unc \in BOOLEAN, ow \in BOOLEAN : \E it \in DictItems(unc) :
           SaveResultsDict(it, unc, "", ow)
    \/ \E a \in PairLists({"x"}, {1, 2}, MaxBatch - 1),
          m \in {<<TRUE, TRUE>>, <<FALSE, TRUE>>, <<TRUE, FALSE>>} :
           SaveResultArrays(a, "", m[1], FALSE, m[2])

SpecBatch == InitBatch /\ [][NextBatch]_vars

\* ---------------------------------------------------------------- claims

WriteOps ==
    {"save_result", "save_result_array", "save_results", "save_results_dict",
     "save_result_arrays"}

WriteModes == {"r+", "a", "w"}

\* The number of handles open after the first k events of a log.
Depth(log, k) ==
    Cardinality({i \in 1..k : log[i].ev = "open"})
    - Cardinality({i \in 1..k : log[i].ev = "close"})

\* The number of write-mode opens of a log.
WriteOpens(log) == Cardinality({i \in 1..Len(log) : log[i].ev = "open" /\ log[i].mode \in WriteModes})

\* The name/value pairs a write accessor was asked to store.
NumPairs(c) ==
    IF c.op \in {"save_result", "save_result_array"} THEN 1
    ELSE IF c.op = "save_results_dict" THEN Len(c.args.items)
    ELSE Len(c.args.args) \div 2

\* C2, as claimed: on a Run whose no_write flag is true every write accessor
\* raises for every argument list, the empty ones included, and opens the
\* file in no mode.
C2_ReadOnlyRejectsEveryWrite ==
    (call.op \in WriteOps /\ pre.obj.kind = "Run" /\ pre.obj.no_write)
        => (call.exc # "none" /\ call.log = <<>>)

\* A batch writer handed no name/value pair returns on a read-only Run.
C2_Witness ==
    /\ call.op \in {"save_results", "save_results_dict", "save_result_arrays"}
    /\ pre.obj.kind = "Run" /\ pre.obj.no_write
    /\ NumPairs(call) = 0
    /\ call.exc = "none"

\* What the code does guarantee on a read-only Run:
\* the file is never opened and never changed, and a write accessor handed at
\* least one name/value pair raises.
ReadOnlyWritesNothing ==
    (call.op \in WriteOps /\ pre.obj.no_write)
        => /\ call.log = <<>>
           /\ file = pre.file
           /\ NumPairs(call) >= 1 => call.exc = ReadOnlyError

\* The group is absent at the check of _create_group_if_not_exists: the
\* location is there and holds no such name.
AbsentAtCheck(f, e) == Exists(f, e.loc) /\ ~Contains(f, e.loc, e.name)

\* One _create_group_if_not_exists call opens read-only first, and in write
\* mode if and only if the group is absent at the check.
EnsureOpensAsNeeded(f, e) ==
    /\ e.log[1] = Open(H5Path, "r")
    /\ WriteOpens(e.log) = (IF AbsentAtCheck(f, e) THEN 1 ELSE 0)

\* The last _create_group_if_not_exists call of the previous call followed by
\* those of this call: every neighbouring two are consecutive calls.
EnsureCalls == (IF ens = <<>> THEN <<>> ELSE <<ens[Len(ens)]>>) \o ens'

SameGroup(a, b) == a.loc = b.loc /\ a.name = b.name

\* C3, as claimed: _create_group_if_not_exists opens read-only first and in
\* write mode iff the group is absent; two consecutive calls for the same
\* location and name never raise, open at most once for writing in total,
\* and the second not at all.
C3_EnsureGroupNeverRaises ==
    [][/\ ens' # <<>> => EnsureOpensAsNeeded(file, ens'[1])
       /\ \A i \in 1..(Len(EnsureCalls) - 1) :
              SameGroup(EnsureCalls[i], EnsureCalls[i + 1])
                  => /\ EnsureCalls[i].exc = "none"
                     /\ EnsureCalls[i + 1].exc = "none"
                     /\ WriteOpens(EnsureCalls[i].log) + WriteOpens(EnsureCalls[i + 1].log) <= 1
                     /\ WriteOpens(EnsureCalls[i + 1].log) = 0]_vars

\* C3, amended: the same, for a location that exists in the file; when the
\* location is missing each of the two calls raises KeyError after its
\* read-only open and opens nothing for writing.
C3_EnsureGroupIdempotent ==
    [][/\ ens' # <<>> => EnsureOpensAsNeeded(file, ens'[1])
       /\ \A i \in 1..(Len(EnsureCalls) - 1) :
              SameGroup(EnsureCalls[i], EnsureCalls[i + 1])
                  => /\ WriteOpens(EnsureCalls[i].log) + WriteOpens(EnsureCalls[i + 1].log) <= 1
                     /\ WriteOpens(EnsureCalls[i + 1].log) = 0
                     /\ EnsureCalls[i + 1].exc = EnsureCalls[i].exc
                     /\ EnsureCalls[i + 1].exc = "none" <=> Exists(file, EnsureCalls[i + 1].loc)
                     /\ EnsureCalls[i + 1].exc \in {"none", "KeyError"}]_vars

\* C3's case: set_group(g) called again on the object whose group is already
\* g, results/g having been made by the first call.
C3_Witness ==
    /\ call.op = "set_group"
    /\ pre.obj.has_group /\ pre.obj.group = call.args.groupname
    /\ Exists(pre.file, Join("results", call.args.groupname))
    /\ ens[1].exc = "none"
    /\ WriteOpens(call.log) = 0

\* C4: during every call at most one handle is open at any moment, and none
\* is open once the call has returned or raised.
C4_OneHandleNoneLeft ==
    /\ \A k \in 0..Len(call.log) : Depth(call.log, k) \in {0, 1}
    /\ Depth(call.log, Len(call.log)) = 0

\* C4's case: a call that raised inside its `with` block.
C4_Witness ==
    /\ call.op = "save_result"
    /\ call.exc = "Exception"
    /\ call.log = With(H5Path, "a")

\* A Run built with no_write=False whose script name was not found.
Fallback(o) == o.kind = "Run" /\ ~o.arg_no_write /\ ~o.script_known

SequenceFallback(o) == o.kind = "Sequence" /\ ~o.arg_no_write /\ ~o.script_known

\* C10, as claimed: on such a Sequence set_group returns without raising,
\* and save_result then succeeds and stores under results/groupname.
C10_SequenceSetGroup ==
    /\ (call.op = "set_group" /\ SequenceFallback(obj)) => call.exc = "none"
    /\ (call.op = "save_result" /\ SequenceFallback(pre.obj) /\ pre.obj.has_group
            /\ call.args.group = "" /\ call.args.overwrite)
           => /\ call.exc = "none"
              /\ NodeAttrs(file, "results/" \o pre.obj.group)[call.args.name] = call.args.value

\* Sequence.set_group raising on the attribute Sequence.__init__ never set,
\* the Sequence left read-only.
C10_Witness ==
    /\ call.op = "set_group" /\ SequenceFallback(obj)
    /\ call.exc = "AttributeError"
    /\ obj.no_write

\* The group a save_result or save_result_array call writes into.
Target(c, o) == IF c.args.group = "" THEN "results/" \o o.group ELSE c.args.group

\* The attribute name is stored in group g of file f.
HasAttr(f, g, name) == Exists(f, g) /\ name \in DOMAIN NodeAttrs(f, g)

\* f2 is f1 but for the one attribute name of group g.
SameButAttr(f1, f2, g, name) ==
    /\ f2.groups = f1.groups
    /\ f2.dsets = f1.dsets
    /\ \A h \in f1.groups :
           /\ DOMAIN f2.attrs[h] \ {name} = DOMAIN f1.attrs[h] \ {name}
           /\ \A n \in DOMAIN f1.attrs[h] :
                  (h # Norm(g) \/ n # name) => (n \in DOMAIN f2.attrs[h] /\ f2.attrs[h][n] = f1.attrs[h][n])

\* C1: save_result on a writable Run, the name already stored in the target
\* group: with overwrite=False the call raises and the file is what it was;
\* with overwrite=True it returns, the name holds the new value and every
\* other attribute (and every group and dataset) is unchanged.
C1_OverwriteFlag ==
    (call.op = "save_result" /\ ~pre.obj.no_write
         /\ HasAttr(pre.file, Target(call, pre.obj), call.args.name))
        => IF call.args.overwrite
           THEN /\ call.exc = "none"
                /\ NodeAttrs(file, Target(call, pre.obj))[call.args.name] = call.args.value
                /\ SameButAttr(pre.file, file, Target(call, pre.obj), call.args.name)
           ELSE /\ call.exc = "Exception"
                /\ file = pre.file

\* C1's case: a stored value replaced by a different one, in a group that
\* holds another attribute.
C1_Witness ==
    /\ call.op = "save_result" /\ ~pre.obj.no_write /\ call.args.overwrite
    /\ HasAttr(pre.file, Target(call, pre.obj), call.args.name)
    /\ NodeAttrs(pre.file, Target(call, pre.obj))[call.args.name] # call.args.value
    /\ DOMAIN NodeAttrs(pre.file, Target(call, pre.obj)) # {call.args.name}
    /\ call.exc = "none"

\* C1's other case: the write refused, the name being stored already.
C1_WitnessRefused ==
    /\ call.op = "save_result" /\ ~pre.obj.no_write /\ ~call.args.overwrite
    /\ HasAttr(pre.file, Target(call, pre.obj), call.args.name)
    /\ NodeAttrs(pre.file, Target(call, pre.obj))[call.args.name] # call.args.value
    /\ call.exc = "Exception"

\* The entries staged for the Run's file.
Staged(u) == IF H5Path \in DOMAIN u THEN u[H5Path] ELSE NoAttrs

\* C6, as claimed: with spinning_top every save_result that returns, whatever
\* its target group, leaves (group, name) -> value in _updated_data for the
\* file; one that raises adds nothing; without spinning_top nothing is added.
C6_EverySaveStaged ==
    call.op = "save_result"
        => /\ (spinning_top /\ call.exc = "none")
                  => /\ <<RemoveFirst(Target(call, pre.obj), "results/"), call.args.name>>
                            \in DOMAIN Staged(_updated_data)
                     /\ Staged(_updated_data)[<<RemoveFirst(Target(call, pre.obj), "results/"),
                                                call.args.name>>] = call.args.value
           /\ call.exc # "none" => _updated_data = pre.upd
           /\ ~spinning_top => _updated_data = NoAttrs

\* C6, amended: with spinning_top a save_result that returns and whose target
\* group path starts with 'results' leaves (group without its 'results/'
\* prefix, name) -> value staged for the file, the other entries as they
\* were; one whose target is any other group stages no entry; one that
\* raises changes nothing; without spinning_top nothing is ever staged.
C6_ResultsSavesStaged ==
    /\ ~spinning_top => _updated_data = NoAttrs
    /\ call.op = "save_result"
        => /\ (spinning_top /\ call.exc = "none" /\ StartsWith(Target(call, pre.obj), "results"))
                  => Staged(_updated_data) =
                         Put(Staged(pre.upd),
                             <<RemoveFirst(Target(call, pre.obj), "results/"), call.args.name>>,
                             call.args.value)
           /\ (spinning_top /\ call.exc = "none" /\ ~StartsWith(Target(call, pre.obj), "results"))
                  => Staged(_updated_data) = Staged(pre.upd)
           /\ call.exc # "none" => _updated_data = pre.upd

\* C6's case: a save into an explicitly given results group, staged under
\* that group's name and not the Run's own.
C6_Witness ==
    /\ spinning_top
    /\ call.op = "save_result" /\ call.exc = "none"
    /\ call.args.group = "results/g" /\ obj.group = ScriptGroup
    /\ <<"g", "x">> \in DOMAIN Staged(_updated_data)
    /\ Staged(_updated_data)[<<"g", "x">>] = call.args.value

\* The dataset name of group g in file f, as get_result_array reads it.
ReadBack(f, o, g, name) == get_result_array(f, o.h5_path, RemoveFirst(g, "results/"), name)

\* C7: after save_result_array(name, d) returns, get_result_array(group,
\* name) returns d; and when the call overwrote a dataset carrying the
\* attributes A with keep_attrs=True, the new dataset's attributes are A.
C7_ArrayRoundTrip ==
    (call.op = "save_result_array" /\ call.exc = "none"
         /\ StartsWith(Target(call, pre.obj), "results/"))
        => /\ ReadBack(file, obj, Target(call, pre.obj), call.args.name).exc = "none"
           /\ ReadBack(file, obj, Target(call, pre.obj), call.args.name).ret = call.args.data
           /\ (call.args.keep_attrs
                   /\ IsDataset(pre.file, Join(Target(call, pre.obj), call.args.name)))
                  => NodeAttrs(file, Join(Target(call, pre.obj), call.args.name))
                         = NodeAttrs(pre.file, Join(Target(call, pre.obj), call.args.name))

\* C7's case: a dataset carrying an attribute overwritten with different
\* data, keep_attrs=True, through the Run's own group.
C7_Witness ==
    /\ call.op = "save_result_array" /\ call.exc = "none"
    /\ call.args.group = "" /\ call.args.overwrite /\ call.args.keep_attrs
    /\ IsDataset(pre.file, Join(Target(call, pre.obj), call.args.name))
    /\ NodeAttrs(pre.file, Join(Target(call, pre.obj), call.args.name)) # NoAttrs
    /\ pre.file.dsets[Target(call, pre.obj)][call.args.name].data # call.args.data
    /\ file.dsets[Target(call, pre.obj)][call.args.name].data = call.args.data

\* The member file f holds no trace of that name.
TraceAbsent(f, name) == ~Contains(f, "data/traces", name)

\* The last call is Sequence.get_trace and no member holds the trace.
AllTracesAbsent ==
    /\ call.op = "get_trace" /\ obj.kind = "Sequence"
    /\ \A i \in 1..Len(obj.runs) : TraceAbsent(mfiles[obj.runs[i]], call.args.name)

GoodNSequences ==
    \/ call.args.n_sequences.type = "NoneType"
    \/ call.args.n_sequences.type = "int" /\ call.args.n_sequences.val >= 0

\* The filter_kwargs of the last call is None or a dict.
GoodFilter == call.args.filter_kwargs.type \in {"NoneType", "dict"}

\* C9, as claimed: data() without a filepath raises on an n_sequences or
\* filter_kwargs of the wrong kind without sending; with n_sequences = 0
\* (and a filter_kwargs of the right kind) it sends once and raises nothing
\* but what the transport raised.
C9_ValidatesThenSendsOnce ==
    (call.op = "data" /\ call.args.filepath = "")
        => /\ ~(GoodNSequences /\ GoodFilter) => (call.exc = "ValueError" /\ call.sent = <<>>)
           /\ (call.args.n_sequences = PyInt(0) /\ GoodFilter)
                  => /\ Len(call.sent) = 1
                     /\ call.exc # "none" => (call.args.transport = "timeout"
                                              /\ call.exc = "TimeoutError")

\* data() validates before it sends: a bad n_sequences or filter_kwargs
\* raises ValueError with nothing sent, everything else sends exactly once.
DataValidatesBeforeSending ==
    (call.op = "data" /\ call.args.filepath = "")
        => IF GoodNSequences /\ GoodFilter
           THEN Len(call.sent) = 1 /\ call.exc # "ValueError"
           ELSE call.exc = "ValueError" /\ call.sent = <<>>

\* data(n_sequences=0) raising NameError after its one send.
DataNameError ==
    /\ call.op = "data" /\ call.args.filepath = ""
    /\ call.args.n_sequences = PyInt(0) /\ call.args.filter_kwargs = PyNone
    /\ call.args.transport = "table"
    /\ labconfig = "unbound"
    /\ call.exc = "NameError" /\ Len(call.sent) = 1

\* The last call failed for want of its target group: the group name was
\* never set, or the path is missing, or what is stored there is no group.
MissingGroupFailure ==
    \/ call.exc \in {"KeyError", "AttributeError"}
    \/ /\ call.exc = "TypeError"
       /\ pre.obj.has_group
       /\ ~IsGroup(pre.file, Target(call, pre.obj))

\* C11, as claimed: whenever the object's no_write flag is false its group
\* name is defined and /results and /results/<group> are groups of the
\* file, and a save_result or save_result_array with the default group does
\* not fail for a missing group.
C11_WritableHasGroup ==
    /\ (obj.kind # "none" /\ ~obj.no_write)
           => /\ obj.has_group
              /\ IsGroup(file, "results")
              /\ IsGroup(file, "results/" \o obj.group)
    /\ (call.op \in {"save_result", "save_result_array"} /\ ~pre.obj.no_write
            /\ call.args.group = "")
           => ~MissingGroupFailure

\* A writable Run whose result group has been replaced by a dataset of the
\* same name.
C11_Witness ==
    /\ obj.kind = "Run" /\ ~obj.no_write /\ obj.has_group
    /\ ~IsGroup(file, "results/" \o obj.group)
    /\ IsDataset(file, "results/" \o obj.group)

\* The default-group save_result_array failing on such a Run.
C11_SaveFails ==
    /\ call.op = "save_result_array" /\ call.args.group = ""
    /\ ~pre.obj.no_write
    /\ MissingGroupFailure

\* C12, as claimed: a Run constructed with no_write=True opens the file in
\* no write mode and leaves its contents alone, in the constructor and in
\* every method after it, set_group included.
C12_NoWriteRunNeverWrites ==
    /\ (call.op = "Run" /\ call.args.no_write)
           => (WriteOpens(call.log) = 0 /\ file = pre.file)
    /\ (call.op \notin {"none", "Run", "Sequence", "data"}
            /\ pre.obj.kind = "Run" /\ pre.obj.arg_no_write)
           => (WriteOpens(call.log) = 0 /\ file = pre.file)

\* set_group on a Run constructed with no_write=True has opened the file
\* 'r+' and created the group.
C12_Witness ==
    /\ call.op = "set_group"
    /\ pre.obj.kind = "Run" /\ pre.obj.arg_no_write /\ obj.no_write
    /\ call.exc = "none"
    /\ WriteOpens(call.log) = 1
    /\ ~Exists(pre.file, "results/" \o call.args.groupname)
    /\ IsGroup(file, "results/" \o call.args.groupname)

\* Everything but set_group keeps to the flag: on a Run constructed with
\* no_write=True the constructor and every accessor open no write handle and
\* leave the file as it was.
NoWriteRunOnlySetGroupWrites ==
    /\ (call.op = "Run" /\ call.args.no_write)
           => (WriteOpens(call.log) = 0 /\ file = pre.file)
    /\ (call.op \notin {"none", "Run", "Sequence", "data", "set_group"}
            /\ pre.obj.kind = "Run" /\ pre.obj.arg_no_write)
           => (WriteOpens(call.log) = 0 /\ file = pre.file)

BatchOps == {"save_results", "save_results_dict", "save_result_arrays"}

\* The name/value pairs of a batch call, in the order it was handed them.
BatchPairs(c) ==
    IF c.op = "save_results_dict" THEN DictPairs(c.args.items, c.args.uncertainties)
    ELSE Pairs(c.args.args)

\* The name is stored in group g of file f: as an attribute for the
\* attribute writers, as a member of the group for save_result_arrays.
Present(c, f, g, n) ==
    IF c.op = "save_result_arrays" THEN Contains(f, g, n) ELSE n \in DOMAIN NodeAttrs(f, g)

\* What is stored under the name: the attribute's value or the dataset's data.
StoredValue(c, f, g, n) ==
    IF c.op = "save_result_arrays" THEN f.dsets[Norm(g)][n].data ELSE NodeAttrs(f, g)[n]

\* The singular write of pair i raises, the pairs before it having been
\* written: create_dataset refuses the keyword arguments, or overwrite is
\* False and the name is stored already, in the file or by an earlier pair.
PairFails(c, f, g, ps, i) ==
    \/ c.op = "save_result_arrays" /\ ~c.args.kwargs_ok
    \/ /\ ~c.args.overwrite
       /\ \/ Present(c, f, g, ps[i][1])
          \/ \E j \in 1..(i - 1) : ps[j][1] = ps[i][1]

\* The first pair whose singular write raises; one past the last if none.
FirstFailure(c, f, g, ps) ==
    IF \E i \in 1..Len(ps) : PairFails(c, f, g, ps, i)
    THEN CHOOSE i \in 1..Len(ps) :
             /\ PairFails(c, f, g, ps, i)
             /\ \A j \in 1..(i - 1) : ~PairFails(c, f, g, ps, j)
    ELSE Len(ps) + 1

\* The last of the pairs before the k-th that bears the name of pair i.
LastBefore(ps, k, i) ==
    CHOOSE j \in 1..(k - 1) :
        /\ ps[j][1] = ps[i][1]
        /\ \A m \in (j + 1)..(k - 1) : ps[m][1] # ps[i][1]

\* A batch call through the default group of a writable Run whose group is
\* in the file.
BatchCall ==
    /\ call.op \in BatchOps
    /\ ~pre.obj.no_write /\ pre.obj.has_group /\ call.args.group = ""
    /\ IsGroup(pre.file, "results/" \o pre.obj.group)

\* C13: with k the first pair whose singular write raises, the batch writer
\* raises iff there is such a pair; the pairs before k are stored (a name
\* given twice holds its later value); no name that only pair k or a later
\* pair bears is written; nothing else in the file changes. In
\* save_results_dict with uncertainties the pairs are name, u_name in turn,
\* so a failure on u_name leaves name written.
C13_BatchStopsAtFirstFailure ==
    BatchCall =>
        LET g == "results/" \o pre.obj.group
            ps == BatchPairs(call)
            k == FirstFailure(call, pre.file, g, ps)
            done == {ps[i][1] : i \in 1..(k - 1)}
        IN /\ (call.exc # "none") <=> (k <= Len(ps))
           /\ \A i \in 1..(k - 1) :
                  /\ Present(call, file, g, ps[i][1])
                  /\ StoredValue(call, file, g, ps[i][1]) = ps[LastBefore(ps, k, i)][2]
           /\ \A i \in k..Len(ps) :
                  (ps[i][1] \notin done /\ Present(call, file, g, ps[i][1]))
                      => /\ Present(call, pre.file, g, ps[i][1])
                         /\ StoredValue(call, file, g, ps[i][1])
                                = StoredValue(call, pre.file, g, ps[i][1])
           /\ file.groups = pre.file.groups
           /\ \A h \in file.groups :
                  /\ (h # g \/ call.op = "save_result_arrays") => file.attrs[h] = pre.file.attrs[h]
                  /\ (h # g \/ call.op # "save_result_arrays") => file.dsets[h] = pre.file.dsets[h]
                  /\ \A n \in (DOMAIN file.attrs[h] \cup DOMAIN pre.file.attrs[h]) \ done :
                         /\ n \in DOMAIN file.attrs[h] /\ n \in DOMAIN pre.file.attrs[h]
                         /\ file.attrs[h][n] = pre.file.attrs[h][n]
                  /\ \A n \in DOMAIN file.dsets[h] \ done :
                         /\ n \in DOMAIN pre.file.dsets[h]
                         /\ file.dsets[h][n] = pre.file.dsets[h][n]

\* C13's case: save_results handed three pairs, the second failing on the
\* name the first has just stored: the first is in the file, the third's
\* name is not.
C13_Witness ==
    /\ BatchCall /\ call.op = "save_results"
    /\ Len(BatchPairs(call)) > 2
    /\ FirstFailure(call, pre.file, "results/" \o pre.obj.group, BatchPairs(call)) = 2
    /\ call.exc = "Exception"
    /\ ~Present(call, pre.file, "results/" \o pre.obj.group, BatchPairs(call)[1][1])
    /\ Present(call, file, "results/" \o pre.obj.group, BatchPairs(call)[1][1])
    /\ \A i \in 3..Len(BatchPairs(call)) :
           ~Present(call, file, "results/" \o pre.obj.group, BatchPairs(call)[i][1])

\* save_results_dict with uncertainties failing on u_x, x written by it.
C13_WitnessUncertainty ==
    /\ BatchCall /\ call.op = "save_results_dict" /\ call.args.uncertainties
    /\ call.exc = "Exception"
    /\ ~Present(call, pre.file, "results/" \o pre.obj.group, "x")
    /\ Present(call, file, "results/" \o pre.obj.group, "x")
    /\ file.attrs["results/" \o pre.obj.group]["u_x"]
           = pre.file.attrs["results/" \o pre.obj.group]["u_x"]

\* save_result_arrays failing on its second pair, the first stored.
C13_WitnessArrays ==
    /\ BatchCall /\ call.op = "save_result_arrays"
    /\ FirstFailure(call, pre.file, "results/" \o pre.obj.group, BatchPairs(call)) = 2
    /\ call.exc = "Exception"
    /\ Present(call, file, "results/" \o pre.obj.group, BatchPairs(call)[1][1])

\* The last call is a save_result_array that raised, a dataset of that name
\* being stored in its target group before the call.
FailedOverDataset ==
    /\ call.op = "save_result_array" /\ call.exc # "none"
    /\ pre.obj.has_group
    /\ IsGroup(pre.file, Target(call, pre.obj))
    /\ call.args.name \in DOMAIN pre.file.dsets[Norm(Target(call, pre.obj))]

\* C14, as claimed: when save_result_array raises, whatever the reason, the
\* dataset stored under the name before the call is still there with its
\* old data and its old attributes.
C14_FailedSaveKeepsOld ==
    FailedOverDataset
        => /\ call.args.name \in DOMAIN file.dsets[Norm(Target(call, pre.obj))]
           /\ file.dsets[Norm(Target(call, pre.obj))][call.args.name]
                  = pre.file.dsets[Norm(Target(call, pre.obj))][call.args.name]

\* An overwriting save_result_array whose create_dataset raised: the old
\* dataset is gone and nothing stands in its place.
C14_Witness ==
    /\ FailedOverDataset
    /\ call.args.overwrite /\ ~call.args.kwargs_ok
    /\ call.exc = "TypeError"
    /\ ~Contains(file, Target(call, pre.obj), call.args.name)

\* What the code does keep: a save_result_array refused for overwrite=False
\* or for a read-only Run leaves the file as it was.
RefusedSaveKeepsFile ==
    (call.op = "save_result_array" /\ call.exc \in {"Exception"})
        => file = pre.file

====
